---- MODULE Spec2Model ----
(***************************************************************************)
(* Model of gdbserver/linux-riscv-low.cc: the RISC-V (with optional CHERI  *)
(* capability extension) register-set codecs, the program-counter          *)
(* accessors, low_fetch_register and the software-breakpoint codec.        *)
(*                                                                         *)
(* Registers and transfer buffers are sequences of bytes.  C register      *)
(* numbers and byte offsets are 0-based; the sequences holding them are    *)
(* 1-based, so register n is registers[n + 1] and the byte at offset o of  *)
(* a buffer is buf[o + 1].                                                 *)
(***************************************************************************)
EXTENDS Integers, Sequences, FiniteSets, TLC

VARIABLES tdesc, regcache, buf, bufsrc, thread, last, scen, fatal, budget

vars == <<tdesc, regcache, buf, bufsrc, thread, last, scen, fatal, budget>>

(***************************************************************************)
(* Bounds of the model.                                                    *)
(***************************************************************************)
\* thread register images the inferior may hold: seeds 0..MaxSeed
MaxSeed == 0
\* new program-counter values given to low_set_pc: indices 0..MaxNewPc
MaxNewPc == 0
\* breakpoint kinds given to sw_breakpoint_from_kind: 0..MaxKind
MaxKind == 5
\* register transfers run on one stopped thread
MaxOps == 3
\* operations of one collect / set pc / write back / collect session
MaxPcOps == 4
\* instruction halfwords memory may hold besides the trap patterns: 0..MaxInsn
MaxInsn == 4

(***************************************************************************)
(* Program constants.                                                      *)
(***************************************************************************)
NFPREG == 33
ELF_NFPREG == NFPREG
MAX_REGSET_SIZE == 33 * 16
riscv_ibreakpoint == <<115, 16>>       \* { 0x0073, 0x0010 }
riscv_cbreakpoint == 36866             \* 0x9002
SizeofInsn == 2                        \* sizeof (buf.insn), a uint16_t
SizeofIbreakpoint == 2 * Len(riscv_ibreakpoint)
SizeofCbreakpoint == SizeofInsn
CapSize == 16

(***************************************************************************)
(* The register descriptor built by riscv_create_target_description.       *)
(***************************************************************************)
XRegNames ==
  << "zero", "ra", "sp", "gp", "tp", "t0", "t1", "t2", "fp", "s1",
     "a0", "a1", "a2", "a3", "a4", "a5", "a6", "a7",
     "s2", "s3", "s4", "s5", "s6", "s7", "s8", "s9", "s10", "s11",
     "t3", "t4", "t5", "t6", "pc" >>

FRegNames ==
  << "ft0", "ft1", "ft2", "ft3", "ft4", "ft5", "ft6", "ft7", "fs0", "fs1",
     "fa0", "fa1", "fa2", "fa3", "fa4", "fa5", "fa6", "fa7",
     "fs2", "fs3", "fs4", "fs5", "fs6", "fs7", "fs8", "fs9", "fs10", "fs11",
     "ft8", "ft9", "ft10", "ft11" >>

FCsrNames == << "fflags", "frm", "fcsr" >>

CRegNames ==
  << "cnull", "cra", "csp", "cgp", "ctp", "ct0", "ct1", "ct2", "cfp", "cs1",
     "ca0", "ca1", "ca2", "ca3", "ca4", "ca5", "ca6", "ca7",
     "cs2", "cs3", "cs4", "cs5", "cs6", "cs7", "cs8", "cs9", "cs10", "cs11",
     "ct3", "ct4", "ct5", "ct6", "pcc", "ddc" >>

CheriFeature == "org.gnu.gdb.riscv.cheri"

\* riscv_gdbarch_features: xlen and flen in bytes
FeatureSets == [xlen : {4, 8}, flen : {4, 8, 16}, cheri : BOOLEAN]

RegDefs(names, size) == <<>> \o [i \in 1..Len(names) |-> [name |-> names[i], size |-> size]]

riscv_create_target_description(features) ==
  [ features |-> {"org.gnu.gdb.riscv.cpu", "org.gnu.gdb.riscv.fpu"}
                 \cup (IF features.cheri THEN {CheriFeature} ELSE {}),
    reg_defs |-> RegDefs(XRegNames, features.xlen)
                 \o RegDefs(FRegNames, features.flen)
                 \o RegDefs(FCsrNames, 4)
                 \o (IF features.cheri THEN RegDefs(CRegNames, CapSize) ELSE <<>>) ]

tdesc_contains_feature(td, feature) == feature \in td.features

NumRegs(td) == Len(td.reg_defs)

RegNos(td) == 0..(NumRegs(td) - 1)

HasReg(td, name) == \E i \in 1..NumRegs(td) : td.reg_defs[i].name = name

\* find_regno: the number of the register called name; an unknown name is an
\* internal error (UnknownReg stands for the call that does not return).
UnknownReg == -1

find_regno(td, name) ==
  IF HasReg(td, name)
  THEN (CHOOSE i \in 1..NumRegs(td) : td.reg_defs[i].name = name) - 1
  ELSE UnknownReg

register_size(td, n) == td.reg_defs[n + 1].size

(***************************************************************************)
(* Byte buffers and the register-cache primitives.                         *)
(***************************************************************************)
\* the sequence a function on 1..n is
AsSeq(f) == <<>> \o f

Zeros(n) == AsSeq([i \in 1..n |-> 0])

\* memcpy (buf + off, bytes, Len (bytes)).  b is the buffer only: bytes that
\* would land past its end land in memory the model does not hold.
WriteBytes(b, off, bytes) ==
  IF off + Len(bytes) <= Len(b)
  THEN SubSeq(b, 1, off) \o bytes \o SubSeq(b, off + Len(bytes) + 1, Len(b))
  ELSE IF off >= Len(b) THEN b
  ELSE SubSeq(b, 1, off) \o SubSeq(bytes, 1, Len(b) - off)

\* the len bytes of buf starting at off; 0 stands for a byte past the end of
\* b, which the model does not hold
ReadBytes(b, off, len) ==
  IF off + len <= Len(b)
  THEN SubSeq(b, off + 1, off + len)
  ELSE SubSeq(b \o Zeros(off + len - Len(b)), off + 1, off + len)

\* A CORE_ADDR is held as its 8-byte little-endian image (a 64-bit value does
\* not fit the integers of the checker).  Conversion to an n-byte unsigned
\* integer keeps the low n bytes; conversion back zero-extends.
SizeofCoreAddr == 8

Truncate(addr, n) == SubSeq(addr, 1, n)

ZeroExtend(bytes, n) == bytes \o Zeros(n - Len(bytes))

\* One register access of a transfer: which register, where in the buffer.
Access(kind, td, n, off) ==
  [kind |-> kind, regno |-> n, off |-> off, len |-> register_size(td, n)]

\* A transfer in progress: the buffer, the cache, the accesses made so far and
\* the loop variable i of the transfer function.
Xfer(td, regs, b) == [tdesc |-> td, regs |-> regs, buf |-> b, ops |-> <<>>, i |-> 0]

collect_register(x, n, off) ==
  [x EXCEPT !.buf = WriteBytes(x.buf, off, x.regs[n + 1]),
            !.ops = Append(x.ops, Access("collect", x.tdesc, n, off))]

collect_register_by_name(x, name, off) ==
  collect_register(x, find_regno(x.tdesc, name), off)

supply_register(x, n, off) ==
  [x EXCEPT !.regs[n + 1] = ReadBytes(x.buf, off, register_size(x.tdesc, n)),
            !.ops = Append(x.ops, Access("supply", x.tdesc, n, off))]

supply_register_by_name(x, name, off) ==
  supply_register(x, find_regno(x.tdesc, name), off)

supply_register_zeroed(x, n) ==
  [x EXCEPT !.regs[n + 1] = Zeros(register_size(x.tdesc, n)),
            !.ops = Append(x.ops, Access("zero", x.tdesc, n, 0))]

(***************************************************************************)
(* riscv_fill_gregset and riscv_store_gregset.                             *)
(***************************************************************************)
\* The next k iterations of
\*   for (; i < n; i++) collect_register (regcache, base + i, buf + i * regsize)
\* in order: the first half of them, then the others on the state those left.
RECURSIVE collect_iter(_, _, _, _, _)
collect_iter(x, base, n, regsize, k) ==
  IF x.i >= n \/ k = 0 THEN x
  ELSE IF k = 1
  THEN [collect_register(x, base + x.i, x.i * regsize) EXCEPT !.i = @ + 1]
  ELSE collect_iter(collect_iter(x, base, n, regsize, k \div 2),
                    base, n, regsize, k - k \div 2)

\* the whole loop: it leaves after at most n - i iterations
collect_loop(x, base, n, regsize) == collect_iter(x, base, n, regsize, n - x.i)

\* The next k iterations of
\*   for (; i < n; i++) supply_register (regcache, base + i, buf + i * regsize)
RECURSIVE supply_iter(_, _, _, _, _)
supply_iter(x, base, n, regsize, k) ==
  IF x.i >= n \/ k = 0 THEN x
  ELSE IF k = 1
  THEN [supply_register(x, base + x.i, x.i * regsize) EXCEPT !.i = @ + 1]
  ELSE supply_iter(supply_iter(x, base, n, regsize, k \div 2),
                   base, n, regsize, k - k \div 2)

supply_loop(x, base, n, regsize) == supply_iter(x, base, n, regsize, n - x.i)

\* regsize as riscv_fill_gregset leaves it for both passes
fill_gregset_regsize_pc(td) == register_size(td, find_regno(td, "pc"))

fill_gregset_regsize(td) ==
  IF tdesc_contains_feature(td, CheriFeature)
  THEN register_size(td, find_regno(td, "pcc"))
  ELSE register_size(td, find_regno(td, "pc"))

\* regsize as riscv_store_gregset leaves it for both passes
store_gregset_regsize_pc(td) == register_size(td, find_regno(td, "pc"))

store_gregset_regsize(td) ==
  IF tdesc_contains_feature(td, CheriFeature)
  THEN register_size(td, find_regno(td, "pcc"))
  ELSE register_size(td, find_regno(td, "pc"))

\* where "ddc" goes: buf + (regno_pc - regno_null) * regsize
ddc_offset_past(regno_pc, regno_null, regsize) == (regno_pc - regno_null + 1) * regsize

ddc_offset(regno_pc, regno_null, regsize) == (regno_pc - regno_null) * regsize

\* the capability pass of riscv_fill_gregset (the body of its if)
fill_gregset_cheri(x, regsize) ==
  LET regno_null == find_regno(x.tdesc, "cnull")
      regno_pc == find_regno(x.tdesc, "pcc")
      x1 == collect_register(x, regno_pc, 0)
      x2 == collect_register_by_name(x1, "ddc", ddc_offset(regno_pc, regno_null, regsize))
  IN  collect_loop([x2 EXCEPT !.i = 1], regno_null, regno_pc - regno_null, regsize)

\* the plain pass of riscv_fill_gregset, run with or without the extension
fill_gregset_plain_from0(x, regsize) ==
  LET regno_null == find_regno(x.tdesc, "zero")
      regno_pc == find_regno(x.tdesc, "pc")
      x1 == collect_register(x, regno_pc, 0)
  IN  collect_loop([x1 EXCEPT !.i = 0], regno_null, regno_pc - regno_null, regsize)

fill_gregset_plain(x, regsize) ==
  LET regno_null == find_regno(x.tdesc, "zero")
      regno_pc == find_regno(x.tdesc, "pc")
      x1 == collect_register(x, regno_pc, 0)
  IN  collect_loop([x1 EXCEPT !.i = 1], regno_null, regno_pc - regno_null, regsize)

riscv_fill_gregset(x) ==
  LET regsize == fill_gregset_regsize(x.tdesc)
      x1 == IF tdesc_contains_feature(x.tdesc, CheriFeature)
            THEN fill_gregset_cheri(x, regsize)
            ELSE x
  IN  fill_gregset_plain(x1, regsize)

\* the capability pass of riscv_store_gregset (the body of its if)
store_gregset_cheri(x, regsize) ==
  LET regno_null == find_regno(x.tdesc, "cnull")
      regno_pc == find_regno(x.tdesc, "pcc")
      x1 == supply_register(x, regno_pc, 0)
      x2 == supply_register_zeroed(x1, regno_null)
      x3 == supply_register_by_name(x2, "ddc", ddc_offset(regno_pc, regno_null, regsize))
  IN  supply_loop([x3 EXCEPT !.i = 1], regno_null, regno_pc - regno_null, regsize)

\* the plain pass of riscv_store_gregset, run with or without the extension
store_gregset_plain_from0(x, regsize) ==
  LET regno_null == find_regno(x.tdesc, "zero")
      regno_pc == find_regno(x.tdesc, "pc")
      x1 == supply_register(x, regno_pc, 0)
      x2 == supply_register_zeroed(x1, regno_null)
  IN  supply_loop([x2 EXCEPT !.i = 0], regno_null, regno_pc - regno_null, regsize)

store_gregset_plain(x, regsize) ==
  LET regno_null == find_regno(x.tdesc, "zero")
      regno_pc == find_regno(x.tdesc, "pc")
      x1 == supply_register(x, regno_pc, 0)
      x2 == supply_register_zeroed(x1, regno_null)
  IN  supply_loop([x2 EXCEPT !.i = 1], regno_null, regno_pc - regno_null, regsize)

riscv_store_gregset(x) ==
  LET regsize == store_gregset_regsize(x.tdesc)
      x1 == IF tdesc_contains_feature(x.tdesc, CheriFeature)
            THEN store_gregset_cheri(x, regsize)
            ELSE x
  IN  store_gregset_plain(x1, regsize)

(***************************************************************************)
(* riscv_fill_fpregset and riscv_store_fpregset.                           *)
(***************************************************************************)
\* for (i = 0; i < ELF_NFPREG - 1; i++, regbuf += flen)
\*   collect_register (regcache, regno + i, regbuf)
collect_fp_loop(x, first, stride) ==
  collect_loop([x EXCEPT !.i = 0], first, ELF_NFPREG - 1, stride)

\* for (i = 0; i < ELF_NFPREG - 1; i++, regbuf += flen)
\*   supply_register (regcache, regno + i, regbuf)
supply_fp_loop(x, first, stride) ==
  supply_loop([x EXCEPT !.i = 0], first, ELF_NFPREG - 1, stride)

\* regbuf - buf when the loop is left: "fcsr" follows the last data register
fcsr_offset_short(flen) == (ELF_NFPREG - 2) * flen

fcsr_offset(flen) == (ELF_NFPREG - 1) * flen

riscv_fill_fpregset(x) ==
  LET regno == find_regno(x.tdesc, "ft0")
      flen == register_size(x.tdesc, regno)
  IN  collect_register_by_name(collect_fp_loop(x, regno, flen), "fcsr",
                               fcsr_offset(flen))

riscv_store_fpregset(x) ==
  LET regno == find_regno(x.tdesc, "ft0")
      flen == register_size(x.tdesc, regno)
  IN  supply_register_by_name(supply_fp_loop(x, regno, flen), "fcsr",
                              fcsr_offset(flen))

(***************************************************************************)
(* riscv_regsets: the transfer table the generic regset loops walk.        *)
(***************************************************************************)
riscv_regsets ==
  << [nt_type |-> "NT_PRSTATUS", size |-> MAX_REGSET_SIZE, type |-> "GENERAL_REGS",
      fill_function |-> "NULL", store_function |-> "riscv_store_gregset"],
     [nt_type |-> "NT_FPREGSET", size |-> 32 * 16 + 16, type |-> "OPTIONAL_REGS",
      fill_function |-> "riscv_fill_fpregset", store_function |-> "riscv_store_fpregset"],
     [nt_type |-> "NT_FPREGSET", size |-> 32 * 8 + 8, type |-> "OPTIONAL_REGS",
      fill_function |-> "riscv_fill_fpregset", store_function |-> "riscv_store_fpregset"],
     [nt_type |-> "NT_FPREGSET", size |-> 32 * 4 + 4, type |-> "OPTIONAL_REGS",
      fill_function |-> "riscv_fill_fpregset", store_function |-> "riscv_store_fpregset"] >>

\* the callbacks the table names
CallFill(name, x) ==
  IF name = "riscv_fill_fpregset" THEN riscv_fill_fpregset(x) ELSE riscv_fill_gregset(x)

CallStore(name, x) ==
  IF name = "riscv_store_fpregset" THEN riscv_store_fpregset(x) ELSE riscv_store_gregset(x)

\* the floating-point row the kernel answers: the one sized for the active flen
FpRow(td) ==
  CHOOSE k \in 2..Len(riscv_regsets) :
    riscv_regsets[k].size >= 32 * register_size(td, find_regno(td, "ft0")) + 4
    /\ \A j \in 2..Len(riscv_regsets) :
         riscv_regsets[j].size >= 32 * register_size(td, find_regno(td, "ft0")) + 4
           => riscv_regsets[j].size >= riscv_regsets[k].size

\* regsets_store_inferior_registers: each row with a fill function collects the
\* cache into the thread's image of that bank; a row without one is skipped.
RegsetsStoreRow(td, regs, th, k) ==
  LET row == riscv_regsets[k]
      bank == IF row.type = "GENERAL_REGS" THEN "gregs" ELSE "fpregs"
  IN  IF row.fill_function = "NULL"
      THEN th
      ELSE [th EXCEPT ![bank] = CallFill(row.fill_function, Xfer(td, regs, th[bank])).buf]

regsets_store_inferior_registers(td, regs, th) ==
  RegsetsStoreRow(td, regs, RegsetsStoreRow(td, regs, th, 1), FpRow(td))

(***************************************************************************)
(* low_fetch_register, low_get_pc, low_set_pc.                             *)
(***************************************************************************)
\* [regs, ret, fatal]: the && is evaluated left to right, so "cnull" is looked
\* up only when regno is not the "zero" register.
low_fetch_register(td, regs, regno) ==
  IF regno = find_regno(td, "zero")
  THEN [regs |-> supply_register_zeroed(Xfer(td, regs, <<>>), regno).regs,
        ret |-> TRUE, fatal |-> FALSE]
  ELSE IF find_regno(td, "cnull") = UnknownReg
  THEN [regs |-> regs, ret |-> FALSE, fatal |-> TRUE]
  ELSE IF regno # find_regno(td, "cnull")
  THEN [regs |-> regs, ret |-> FALSE, fatal |-> FALSE]
  ELSE [regs |-> supply_register_zeroed(Xfer(td, regs, <<>>), regno).regs,
        ret |-> TRUE, fatal |-> FALSE]

\* unsigned long pc; collect_register_by_name (regcache, "pc", &pc); return pc
linux_get_pc_64bit(td, regs) ==
  ZeroExtend(Truncate(regs[find_regno(td, "pc") + 1], 8), SizeofCoreAddr)

\* uint32_t pc; collect_register_by_name (regcache, "pc", &pc); return pc
linux_get_pc_32bit(td, regs) ==
  ZeroExtend(Truncate(regs[find_regno(td, "pc") + 1], 4), SizeofCoreAddr)

\* unsigned long newpc = pc; supply_register_by_name (regcache, "pc", &newpc)
linux_set_pc_64bit(td, regs, pc) ==
  [regs EXCEPT ![find_regno(td, "pc") + 1] = Truncate(ZeroExtend(Truncate(pc, 8), Len(@)), Len(@))]

\* uint32_t newpc = pc; supply_register_by_name (regcache, "pc", &newpc)
linux_set_pc_32bit(td, regs, pc) ==
  [regs EXCEPT ![find_regno(td, "pc") + 1] = Truncate(ZeroExtend(Truncate(pc, 4), Len(@)), Len(@))]

low_get_pc(td, regs) ==
  LET regsize == register_size(td, find_regno(td, "pc"))
  IN  IF regsize = 8 THEN linux_get_pc_64bit(td, regs) ELSE linux_get_pc_32bit(td, regs)

low_set_pc_always32(td, regs, newpc) == linux_set_pc_32bit(td, regs, newpc)

low_set_pc(td, regs, newpc) ==
  LET regsize == register_size(td, find_regno(td, "pc"))
  IN  IF regsize = 8
      THEN linux_set_pc_64bit(td, regs, newpc)
      ELSE linux_set_pc_32bit(td, regs, newpc)

(***************************************************************************)
(* The software-breakpoint codec.                                          *)
(***************************************************************************)
\* riscv_insn_length of opcode/riscv.h: the width the low bits of insn encode
riscv_insn_length(insn) ==
  IF insn % 4 # 3 THEN 2
  ELSE IF insn % 32 # 31 THEN 4
  ELSE IF insn % 64 = 31 THEN 6
  ELSE IF insn % 128 = 63 THEN 8
  ELSE 2

\* the int a C comparison yields
CBool(b) == IF b THEN 1 ELSE 0

\* rd is what target_read_memory (*pcptr, buf.bytes, 2) gives: [ok, insn].
\* The argument of riscv_insn_length is the comparison buf.insn == 4.
breakpoint_kind_from_pc(rd) ==
  IF rd.ok /\ riscv_insn_length(CBool(rd.insn = SizeofIbreakpoint)) # 0
  THEN SizeofIbreakpoint
  ELSE SizeofCbreakpoint

\* [size, insns]: *size = kind, and the pattern the switch returns
sw_breakpoint_from_kind(kind) ==
  [size |-> kind,
   insns |-> IF kind = SizeofIbreakpoint THEN riscv_ibreakpoint
             ELSE <<riscv_cbreakpoint>>]

\* rd1, rd2 are what the reads at pc and at pc + 2 give when issued: [ok, insn].
\* [ret, reads]: the result and the number of reads issued.
low_breakpoint_at_first_half(rd1, rd2) ==
  IF ~rd1.ok THEN [ret |-> FALSE, reads |-> 1]
  ELSE IF rd1.insn = riscv_cbreakpoint THEN [ret |-> TRUE, reads |-> 1]
  ELSE IF rd1.insn # riscv_ibreakpoint[1] THEN [ret |-> FALSE, reads |-> 1]
  ELSE [ret |-> rd2.ok, reads |-> 2]

low_breakpoint_at(rd1, rd2) ==
  IF ~rd1.ok THEN [ret |-> FALSE, reads |-> 1]
  ELSE IF rd1.insn = riscv_cbreakpoint THEN [ret |-> TRUE, reads |-> 1]
  ELSE IF rd1.insn # riscv_ibreakpoint[1] THEN [ret |-> FALSE, reads |-> 1]
  ELSE IF ~rd2.ok THEN [ret |-> FALSE, reads |-> 2]
  ELSE [ret |-> rd2.insn = riscv_ibreakpoint[2], reads |-> 2]

(***************************************************************************)
(* The state machine.                                                      *)
(*   tdesc     the descriptor low_arch_setup built for the process         *)
(*   regcache  the register cache: register n is regcache[n + 1]           *)
(*   buf       the transfer buffer handed to the fill and store callbacks  *)
(*   bufsrc    what buf holds: "fill_g" or "fill_fp" while it is a collect *)
(*             of the cache as it now stands                               *)
(*   thread    the stopped thread's register images, as PTRACE_GETREGSET   *)
(*             returns them                                                *)
(*   last      the last operation: its name, argument, result, the         *)
(*             register accesses it made and the cache before it           *)
(*   scen      progress through collect / set pc / write back / collect    *)
(*   fatal     an internal error has ended the server                      *)
(*   budget    operations the session may still run                        *)
(***************************************************************************)
ThreadImage(seed, shift) ==
  AsSeq([i \in 1..MAX_REGSET_SIZE |-> ((i - 1 + 64 * seed + shift) % 251) + 1])

Threads ==
  { [gregs |-> ThreadImage(s, 0), fpregs |-> ThreadImage(s, 100)] : s \in 0..MaxSeed }

\* new program counters, with bits set above bit 31
NewPcs == { <<4 + 2 * j, 16 + j, 0, 128, 1 + j, 0, 0, 64>> : j \in 0..MaxNewPc }

Halfwords == {riscv_cbreakpoint, riscv_ibreakpoint[1], riscv_ibreakpoint[2], 65535}
             \cup 0..MaxInsn

Reads == [ok : BOOLEAN, insn : Halfwords]

\* register numbers low_fetch_register is asked for
FetchRegnos(td) ==
  {find_regno(td, "zero"), find_regno(td, "zero") + 1, find_regno(td, "pc"),
   find_regno(td, "ft0"), find_regno(td, "fcsr"), NumRegs(td) - 1}
  \cup (IF tdesc_contains_feature(td, CheriFeature)
        THEN {find_regno(td, "cnull"), find_regno(td, "cnull") + 1,
              find_regno(td, "pcc")}
        ELSE {})

\* new_register_cache: every register zero
NewRegcache(td) == AsSeq([i \in 1..NumRegs(td) |-> Zeros(td.reg_defs[i].size)])

\* regsets_fetch_inferior_registers: each row the kernel answers supplies the
\* cache from the thread's image of that bank
regsets_fetch_inferior_registers(td, regs, th) ==
  LET g == CallStore(riscv_regsets[1].store_function, Xfer(td, regs, th.gregs))
  IN  CallStore(riscv_regsets[FpRow(td)].store_function, Xfer(td, g.regs, th.fpregs)).regs

Idle == [phase |-> "idle", b1 |-> <<>>, newpc |-> <<>>]

Op(name, arg, ret, ops) ==
  [op |-> name, arg |-> arg, ret |-> ret, ops |-> ops, before |-> regcache]

\* A stopped thread whose registers have been fetched into the cache, with
\* n operations to run on it.
InitWith(n) ==
  /\ tdesc \in {riscv_create_target_description(f) : f \in FeatureSets}
  /\ thread \in Threads
  /\ regcache = regsets_fetch_inferior_registers(tdesc, NewRegcache(tdesc), thread)
  /\ buf = Zeros(MAX_REGSET_SIZE)
  /\ bufsrc = "none"
  /\ last = [op |-> "regsets_fetch_inferior_registers", arg |-> 0, ret |-> 0,
             ops |-> <<>>, before |-> NewRegcache(tdesc)]
  /\ scen = Idle
  /\ fatal = FALSE
  /\ budget = n

Init == InitWith(MaxOps)

Running == ~fatal /\ budget > 0

\* riscv_fill_gregset (regcache, buf)
FillGregset ==
  /\ Running
  /\ LET x == riscv_fill_gregset(Xfer(tdesc, regcache, buf))
     IN  /\ buf' = x.buf
         /\ last' = Op("riscv_fill_gregset", 0, 0, x.ops)
         /\ scen' = IF scen.phase = "written"
                    THEN [scen EXCEPT !.phase = "recollected"]
                    ELSE [phase |-> "collected", b1 |-> x.buf, newpc |-> <<>>]
  /\ bufsrc' = "fill_g"
  /\ budget' = budget - 1
  /\ UNCHANGED <<tdesc, regcache, thread, fatal>>

\* riscv_fill_fpregset (regcache, buf)
FillFpregset ==
  /\ Running
  /\ LET x == riscv_fill_fpregset(Xfer(tdesc, regcache, buf))
     IN  /\ buf' = x.buf
         /\ last' = Op("riscv_fill_fpregset", 0, 0, x.ops)
  /\ bufsrc' = "fill_fp"
  /\ scen' = Idle
  /\ budget' = budget - 1
  /\ UNCHANGED <<tdesc, regcache, thread, fatal>>

\* riscv_store_gregset (regcache, b): b is the transfer buffer, or the image
\* PTRACE_GETREGSET returned (the general row of regsets_fetch_inferior_registers)
StoreGregset(src) ==
  /\ Running
  /\ LET b == IF src = "thread" THEN thread.gregs ELSE buf
         x == riscv_store_gregset(Xfer(tdesc, regcache, b))
     IN  /\ regcache' = x.regs
         /\ last' = Op("riscv_store_gregset", IF src = "thread" THEN src ELSE bufsrc,
                       b, x.ops)
  /\ bufsrc' = "stale"
  /\ scen' = Idle
  /\ budget' = budget - 1
  /\ UNCHANGED <<tdesc, buf, thread, fatal>>

\* riscv_store_fpregset (regcache, b)
StoreFpregset(src) ==
  /\ Running
  /\ LET b == IF src = "thread" THEN thread.fpregs ELSE buf
         x == riscv_store_fpregset(Xfer(tdesc, regcache, b))
     IN  /\ regcache' = x.regs
         /\ last' = Op("riscv_store_fpregset", IF src = "thread" THEN src ELSE bufsrc,
                       b, x.ops)
  /\ bufsrc' = "stale"
  /\ scen' = Idle
  /\ budget' = budget - 1
  /\ UNCHANGED <<tdesc, buf, thread, fatal>>

\* regsets_store_inferior_registers walking riscv_regsets
RegsetsStore ==
  /\ Running
  /\ thread' = regsets_store_inferior_registers(tdesc, regcache, thread)
  /\ last' = Op("regsets_store_inferior_registers", 0, 0, <<>>)
  /\ scen' = IF scen.phase = "pcset" THEN [scen EXCEPT !.phase = "written"] ELSE Idle
  /\ budget' = budget - 1
  /\ UNCHANGED <<tdesc, regcache, buf, bufsrc, fatal>>

\* low_fetch_register (regcache, regno)
FetchRegister(regno) ==
  /\ Running
  /\ LET r == low_fetch_register(tdesc, regcache, regno)
     IN  /\ regcache' = r.regs
         /\ fatal' = r.fatal
         /\ last' = Op("low_fetch_register", regno, r.ret, <<>>)
  /\ bufsrc' = "stale"
  /\ scen' = Idle
  /\ budget' = budget - 1
  /\ UNCHANGED <<tdesc, buf, thread>>

\* low_set_pc (regcache, newpc)
SetPc(newpc) ==
  /\ Running
  /\ regcache' = low_set_pc(tdesc, regcache, newpc)
  /\ last' = Op("low_set_pc", newpc, 0, <<>>)
  /\ bufsrc' = "stale"
  /\ scen' = IF scen.phase = "collected"
             THEN [scen EXCEPT !.phase = "pcset", !.newpc = newpc]
             ELSE Idle
  /\ budget' = budget - 1
  /\ UNCHANGED <<tdesc, buf, thread, fatal>>

\* low_get_pc (regcache)
GetPc ==
  /\ Running
  /\ last' = Op("low_get_pc", 0, low_get_pc(tdesc, regcache), <<>>)
  /\ budget' = budget - 1
  /\ UNCHANGED <<tdesc, regcache, buf, bufsrc, thread, scen, fatal>>

\* The register codec: collect and supply of both banks, on caches the
\* debugger may have written the program counter of.
Next ==
  \/ FillGregset
  \/ FillFpregset
  \/ \E src \in {"buf", "thread"} : StoreGregset(src)
  \/ \E src \in {"buf", "thread"} : StoreFpregset(src)
  \/ \E newpc \in NewPcs : SetPc(newpc)

Spec == Init /\ [][Next]_vars

\* The program-counter accessors and the write back through riscv_regsets.
InitPc == InitWith(MaxPcOps)

NextPc ==
  \/ FillGregset
  \/ \E newpc \in NewPcs : SetPc(newpc)
  \/ RegsetsStore
  \/ GetPc

SpecPc == InitPc /\ [][NextPc]_vars

\* low_fetch_register on every kind of register.
NextFetch == \E regno \in FetchRegnos(tdesc) : FetchRegister(regno)

SpecFetch == Init /\ [][NextFetch]_vars

\* breakpoint_kind_from_pc (&pc), the read at pc giving rd
BreakpointKindFromPc(rd) ==
  /\ ~fatal
  /\ last' = Op("breakpoint_kind_from_pc", rd, breakpoint_kind_from_pc(rd), <<>>)
  /\ UNCHANGED <<tdesc, regcache, buf, bufsrc, thread, scen, fatal, budget>>

\* sw_breakpoint_from_kind (kind, &size)
SwBreakpointFromKind(kind) ==
  /\ ~fatal
  /\ last' = Op("sw_breakpoint_from_kind", kind, sw_breakpoint_from_kind(kind), <<>>)
  /\ UNCHANGED <<tdesc, regcache, buf, bufsrc, thread, scen, fatal, budget>>

\* low_breakpoint_at (pc), the reads at pc and pc + 2 giving rd1 and rd2
BreakpointAt(rd1, rd2) ==
  /\ ~fatal
  /\ last' = Op("low_breakpoint_at", <<rd1, rd2>>, low_breakpoint_at(rd1, rd2), <<>>)
  /\ UNCHANGED <<tdesc, regcache, buf, bufsrc, thread, scen, fatal, budget>>

\* The breakpoint codec reads memory only, never the descriptor or the cache:
\* one descriptor is enough.
InitBp ==
  /\ Init
  /\ tdesc = riscv_create_target_description([xlen |-> 8, flen |-> 8, cheri |-> TRUE])

NextBp ==
  \/ \E rd \in Reads : BreakpointKindFromPc(rd)
  \/ \E kind \in 0..MaxKind : SwBreakpointFromKind(kind)
  \/ \E rd1 \in Reads, rd2 \in Reads : BreakpointAt(rd1, rd2)

SpecBp == InitBp /\ [][NextBp]_vars

(***************************************************************************)
(* Vocabulary of the properties.                                           *)
(***************************************************************************)
Cheri == tdesc_contains_feature(tdesc, CheriFeature)

RegNo(name) == find_regno(tdesc, name)

RegSize(name) == register_size(tdesc, RegNo(name))

\* the value register n has in cache regs
Reg(regs, n) == regs[n + 1]

\* the plain registers a general-purpose transfer copies: x1..x31 and pc
PlainRegs == (RegNo("zero") + 1)..RegNo("pc")

\* the capability registers whose slot a plain register shares: c1..c31 and pcc
CapRegs == IF Cheri THEN (RegNo("cnull") + 1)..RegNo("pcc") ELSE {}

\* the plain register in the slot of capability register c
PlainOf(c) == c - RegNo("cnull") + RegNo("zero")

\* the floating-point registers a floating-point transfer copies
FpRegs == (RegNo("ft0")..(RegNo("ft0") + ELF_NFPREG - 2)) \cup {RegNo("fcsr")}

LastIs(name) == last.op = name

\* the accesses of the last operation that read or wrote the buffer
BufAccesses == {k \in 1..Len(last.ops) : last.ops[k].kind \in {"collect", "supply"}}

\* how often the last operation touched register n
Touches(n) == Cardinality({k \in 1..Len(last.ops) : last.ops[k].regno = n})

\* the last operation supplied the cache from a collect of that same cache
RoundTripG == LastIs("riscv_store_gregset") /\ last.arg = "fill_g"

RoundTripFp == LastIs("riscv_store_fpregset") /\ last.arg = "fill_fp"

(***************************************************************************)
(* C1.                                                                     *)
(***************************************************************************)
\* C1, as stated: after a collect followed by a supply from the same buffer
\* every transferred register (pc, x1..x31, and with the capability extension
\* pcc, ddc, c1..c31) has exactly the value it had before, zero and cnull are
\* zero; likewise the 32 floating registers and fcsr.
C1_RoundTripExact ==
  /\ RoundTripG =>
       /\ \A n \in PlainRegs \cup CapRegs : Reg(regcache, n) = Reg(last.before, n)
       /\ Cheri => Reg(regcache, RegNo("ddc")) = Reg(last.before, RegNo("ddc"))
       /\ Reg(regcache, RegNo("zero")) = Zeros(RegSize("zero"))
       /\ Cheri => Reg(regcache, RegNo("cnull")) = Zeros(RegSize("cnull"))
  /\ RoundTripFp =>
       \A n \in FpRegs : Reg(regcache, n) = Reg(last.before, n)

\* C1, amended: the plain registers pc, x1..x31, ddc, the floating registers
\* and fcsr come back exactly, zero and cnull are zero, and each capability
\* register pcc, c1..c31 comes back with its bytes above width(pc) unchanged
\* and, in its low width(pc) bytes, the value of the plain register that
\* shares its buffer slot.
C1_RoundTripOverlay ==
  /\ RoundTripG =>
       /\ \A n \in PlainRegs : Reg(regcache, n) = Reg(last.before, n)
       /\ \A c \in CapRegs :
            Reg(regcache, c) =
              Reg(last.before, PlainOf(c))
              \o SubSeq(Reg(last.before, c), RegSize("pc") + 1, RegSize("pcc"))
       /\ Cheri => Reg(regcache, RegNo("ddc")) = Reg(last.before, RegNo("ddc"))
       /\ Reg(regcache, RegNo("zero")) = Zeros(RegSize("zero"))
       /\ Cheri => Reg(regcache, RegNo("cnull")) = Zeros(RegSize("cnull"))
  /\ RoundTripFp =>
       \A n \in FpRegs : Reg(regcache, n) = Reg(last.before, n)

\* a round trip that changed pcc: the cache held a program counter in pc that
\* the low bytes of pcc did not hold
C1_Witness ==
  /\ RoundTripG
  /\ Cheri
  /\ Reg(regcache, RegNo("pcc")) # Reg(last.before, RegNo("pcc"))
  /\ Reg(regcache, RegNo("pc")) = Reg(last.before, RegNo("pc"))

(***************************************************************************)
(* C2.                                                                     *)
(***************************************************************************)
\* C2: after riscv_store_gregset the "zero" register is zero, with the
\* capability extension the "cnull" register is zero too, and neither was
\* supplied from the buffer.
C2_NullIsZero ==
  LastIs("riscv_store_gregset") =>
    /\ Reg(regcache, RegNo("zero")) = Zeros(RegSize("zero"))
    /\ Cheri => Reg(regcache, RegNo("cnull")) = Zeros(RegSize("cnull"))
    /\ \A k \in BufAccesses :
         /\ last.ops[k].regno # RegNo("zero")
         /\ Cheri => last.ops[k].regno # RegNo("cnull")

\* a supply, with the capability extension, from a buffer whose bytes at
\* offset 0 are not zero
C2_Witness ==
  /\ LastIs("riscv_store_gregset")
  /\ Cheri
  /\ \A o \in 1..RegSize("pcc") : last.ret[o] # 0

(***************************************************************************)
(* C7.                                                                     *)
(***************************************************************************)
\* C7, as stated: without the capability extension a general-purpose
\* transfer, collect or supply, touches the registers zero..pc exactly once
\* each and no other: pc - zero + 1 registers.
C7_TouchesNullToPc ==
  (~Cheri /\ (LastIs("riscv_fill_gregset") \/ LastIs("riscv_store_gregset"))) =>
    /\ \A n \in RegNos(tdesc) :
         Touches(n) = IF n \in RegNo("zero")..RegNo("pc") THEN 1 ELSE 0
    /\ Len(last.ops) = RegNo("pc") - RegNo("zero") + 1

\* C7, amended: without the capability extension a supply touches the
\* registers zero..pc exactly once each (pc - zero + 1 registers), and a
\* collect touches the registers zero+1..pc exactly once each (pc - zero
\* registers) and never the zero register.
C7_TouchesByDirection ==
  /\ (~Cheri /\ LastIs("riscv_store_gregset")) =>
       /\ \A n \in RegNos(tdesc) :
            Touches(n) = IF n \in RegNo("zero")..RegNo("pc") THEN 1 ELSE 0
       /\ Len(last.ops) = RegNo("pc") - RegNo("zero") + 1
  /\ (~Cheri /\ LastIs("riscv_fill_gregset")) =>
       /\ \A n \in RegNos(tdesc) :
            Touches(n) = IF n \in (RegNo("zero") + 1)..RegNo("pc") THEN 1 ELSE 0
       /\ Len(last.ops) = RegNo("pc") - RegNo("zero")

\* a collect without the capability extension that left the zero register out
C7_Witness ==
  /\ ~Cheri
  /\ LastIs("riscv_fill_gregset")
  /\ Touches(RegNo("zero")) = 0
  /\ Touches(RegNo("pc")) = 1

(***************************************************************************)
(* C8.                                                                     *)
(***************************************************************************)
\* C8: every byte range a collect writes or a supply reads, of either bank
\* and for every feature set, lies within [0, MAX_REGSET_SIZE).
C8_WithinBuffer ==
  \A k \in BufAccesses :
    /\ 0 <= last.ops[k].off
    /\ last.ops[k].off + last.ops[k].len <= 33 * 16

\* a collect with the capability extension: ddc is written at
\* (pcc - cnull) * 16 and ends on the last byte of the buffer
C8_Witness ==
  /\ LastIs("riscv_fill_gregset")
  /\ Cheri
  /\ \E k \in BufAccesses :
       /\ last.ops[k].regno = RegNo("ddc")
       /\ last.ops[k].off = (RegNo("pcc") - RegNo("cnull")) * 16
       /\ last.ops[k].off + last.ops[k].len = 33 * 16

(***************************************************************************)
(* C9.                                                                     *)
(***************************************************************************)
\* the accesses of the plain pass of the last general-purpose transfer
PlainAccesses == {k \in BufAccesses : last.ops[k].regno \in PlainRegs}

GregTransfer == LastIs("riscv_fill_gregset") \/ LastIs("riscv_store_gregset")

\* C9, as stated: with the capability extension the plain pass places plain
\* register zero + i at byte offset i * width(pc), and pc at offset 0.
C9_PlainStrideIsPcWidth ==
  (Cheri /\ GregTransfer) =>
    \A k \in PlainAccesses :
      last.ops[k].off =
        IF last.ops[k].regno = RegNo("pc") THEN 0
        ELSE (last.ops[k].regno - RegNo("zero")) * RegSize("pc")

\* C9, amended: with the capability extension the plain pass places plain
\* register zero + i at byte offset i * width(pcc), the slot of capability
\* register cnull + i, copying width(pc) bytes, and pc at offset 0.
C9_PlainStrideIsPccWidth ==
  (Cheri /\ GregTransfer) =>
    /\ \A n \in PlainRegs : \E k \in PlainAccesses : last.ops[k].regno = n
    /\ \A k \in PlainAccesses :
         /\ last.ops[k].len = RegSize("pc")
         /\ last.ops[k].off =
              IF last.ops[k].regno = RegNo("pc") THEN 0
              ELSE (last.ops[k].regno - RegNo("zero")) * RegSize("pcc")

\* a transfer with the capability extension whose plain pass put x1 one
\* capability width into the buffer, past where width(pc) would put it
C9_Witness ==
  /\ Cheri
  /\ GregTransfer
  /\ \E k \in PlainAccesses :
       /\ last.ops[k].regno = RegNo("zero") + 1
       /\ last.ops[k].off = RegSize("pcc")
       /\ last.ops[k].off > RegSize("pc")

(***************************************************************************)
(* C6.                                                                     *)
(***************************************************************************)
\* the scenario ran on a 64-bit descriptor without the capability extension:
\* collect into scen.b1, low_set_pc (scen.newpc), write back through
\* riscv_regsets, collect again into buf
Scenario64 ==
  /\ scen.phase = "recollected"
  /\ RegSize("pc") = 8
  /\ ~Cheri

\* C6: at the end of the scenario the second buffer holds the new program
\* counter at offset 0 and, from the slot of x1 on, the bytes of the first
\* buffer, and low_get_pc returns the new program counter.
C6_SetPcEndToEnd ==
  Scenario64 =>
    /\ ReadBytes(buf, 0, 8) = scen.newpc
    /\ \A i \in 1..(RegNo("pc") - RegNo("zero") - 1) :
         ReadBytes(buf, i * 8, 8) = ReadBytes(scen.b1, i * 8, 8)
    /\ SubSeq(buf, 9, Len(buf)) = SubSeq(scen.b1, 9, Len(scen.b1))
    /\ low_get_pc(tdesc, regcache) = scen.newpc

\* the scenario ended, and the new program counter differs from the one the
\* first buffer held in all eight bytes' worth of value
C6_Witness ==
  /\ Scenario64
  /\ ReadBytes(scen.b1, 0, 8) # scen.newpc
  /\ ReadBytes(scen.b1, 0, 4) # SubSeq(scen.newpc, 1, 4)
  /\ SubSeq(scen.newpc, 5, 8) # Zeros(4)

(***************************************************************************)
(* C10.                                                                    *)
(***************************************************************************)
\* the registers low_fetch_register is to answer itself: "zero", and "cnull"
\* where the descriptor has one
NullRegs ==
  {RegNo("zero")} \cup (IF HasReg(tdesc, "cnull") THEN {RegNo("cnull")} ELSE {})

\* C10, as stated: on every descriptor low_fetch_register returns true and
\* zeroes the register exactly for "zero" and "cnull"; for every other
\* register it returns false, leaves the cache alone and raises no fatal
\* unresolved-register-name error.
C10_FetchRegister ==
  LastIs("low_fetch_register") =>
    /\ ~fatal
    /\ last.ret = (last.arg \in NullRegs)
    /\ last.ret => /\ Reg(regcache, last.arg) = Zeros(Len(Reg(last.before, last.arg)))
                   /\ \A n \in RegNos(tdesc) \ {last.arg} :
                        Reg(regcache, n) = Reg(last.before, n)
    /\ ~last.ret => regcache = last.before

(***************************************************************************)
(* C3.                                                                     *)
(***************************************************************************)
\* C3, as stated: sw_breakpoint_from_kind (4) gives the pattern
\* {0x0073, 0x0010} and size 4; every other kind gives the pattern 0x9002 and
\* size 2.
C3_Encode ==
  LastIs("sw_breakpoint_from_kind") =>
    IF last.arg = 4
    THEN last.ret = [size |-> 4, insns |-> <<115, 16>>]
    ELSE last.ret = [size |-> 2, insns |-> <<36866>>]

(***************************************************************************)
(* C4.                                                                     *)
(***************************************************************************)
\* C4, as stated: when the read succeeds breakpoint_kind_from_pc returns the
\* width of the instruction the halfword encodes: 2 for a compact
\* instruction, 4 for a standard one.
C4_Classify ==
  (LastIs("breakpoint_kind_from_pc") /\ last.arg.ok) =>
    /\ riscv_insn_length(last.arg.insn) = 2 => last.ret = 2
    /\ riscv_insn_length(last.arg.insn) = 4 => last.ret = 4

(***************************************************************************)
(* C5.                                                                     *)
(***************************************************************************)
\* C5: low_breakpoint_at is true exactly when the read at pc succeeds and
\* gives 0x9002, or gives 0x0073 and the read at pc + 2 succeeds and gives
\* 0x0010; a failed read gives false; at most two reads are issued, the second
\* only after 0x0073.
C5_Detect ==
  LastIs("low_breakpoint_at") =>
    LET rd1 == last.arg[1]
        rd2 == last.arg[2]
    IN  /\ last.ret.ret \in BOOLEAN
        /\ last.ret.ret =
             (rd1.ok /\ (\/ rd1.insn = 36866
                         \/ (rd1.insn = 115 /\ rd2.ok /\ rd2.insn = 16)))
        /\ last.ret.reads \in {1, 2}
        /\ last.ret.reads = 2 => (rd1.ok /\ rd1.insn = 115)

\* the first halfword is 0x0073, the read at pc + 2 fails although the memory
\* there holds 0x0010: two reads, result false
C5_Witness ==
  /\ LastIs("low_breakpoint_at")
  /\ last.arg[1] = [ok |-> TRUE, insn |-> 115]
  /\ last.arg[2] = [ok |-> FALSE, insn |-> 16]
  /\ last.ret = [ret |-> FALSE, reads |-> 2]

====
